---- MODULE Spec2Model ----
(***************************************************************************)
(* Role-based access control of ReefGuard (core/decorators.py).            *)
(*                                                                         *)
(* One evaluation of a guard is one action: a fresh request reaches a      *)
(* guarded endpoint and is either forwarded to the wrapped handler/view,   *)
(* redirected to the login page, or ends in an exception.  The evaluation  *)
(* context records what the request went through: the flash messages       *)
(* attached, the ordered events (attribute reads, checks, raise, view),    *)
(* the handler invocations and the value returned.                         *)
(***************************************************************************)
EXTENDS Integers, Sequences, FiniteSets, TLC

VARIABLES
    allowed_roles,   \* role guard -> the role tuple held by its closure / class
    owner_field,     \* ownership guard -> the attribute name naming the owner
    last             \* the most recent evaluation (inputs and result)

vars == <<allowed_roles, owner_field, last>>

----------------------------------------------------------------------------
(* Bounds of the model *)

NumUsers == 2
NumRequests == 2

----------------------------------------------------------------------------
(* Data: users, requests, target objects, handler inputs *)

Roles == {"admin", "researcher", "member", "guest"}

NoAttr == "<no attribute>"
None == "None"

\* django.contrib.auth.models.AnonymousUser: not authenticated, pk None,
\* and no `role` attribute.
AnonymousUser == [pk |-> None, is_authenticated |-> FALSE, role |-> NoAttr]

AuthenticatedUsers ==
    {[pk |-> "u" \o ToString(u), is_authenticated |-> TRUE, role |-> r] :
        u \in 1..NumUsers, r \in Roles}

Users == AuthenticatedUsers \cup {AnonymousUser}

UserPks == {"u" \o ToString(u) : u \in 1..NumUsers}

\* request objects are told apart by a serial number
RequestIds == 1..NumRequests

OwnerFields == {"user", "reported_by"}

\* A target object: the attributes it has, each holding a user's pk or None.
Objects ==
    {[f \in {} |-> None],
     [f \in {"user"} |-> "u1"],
     [f \in {"reported_by"} |-> None],
     [f \in OwnerFields |-> IF f = "user" THEN "u1" ELSE "u2"]}

NoObject == [x \in {} |-> None]

\* What the URL resolver calls the handler with, and what the handler returns.
CallArgs ==
    {[args |-> <<>>, kwargs |-> [k \in {} |-> None]],
     [args |-> <<"a1">>, kwargs |-> [k \in {"pk"} |-> "7"]]}

Responses == {"HttpResponse_A", "HttpResponse_B"}

HandlerCalls ==
    {[args |-> a.args, kwargs |-> a.kwargs, response |-> r] :
        a \in CallArgs, r \in Responses}

----------------------------------------------------------------------------
(* The evaluation context *)

NewCtx(request) ==
    [request  |-> request,
     messages |-> <<>>,
     events   |-> <<>>,
     calls    |-> <<>>,
     outcome  |-> "pending",
     ret      |-> None]

Ev(c, e) == [c EXCEPT !.events = Append(@, e)]

Raise(c, exc) == [Ev(c, "raise") EXCEPT !.outcome = exc]

messages_error(c, text) ==
    [Ev(c, "messages.error") EXCEPT !.messages = Append(@, text)]

redirect_to_login(c) ==
    [Ev(c, "redirect_to_login") EXCEPT !.outcome = "redirect_to_login"]

\* The wrapped handler / underlying view: called with (request, args, kwargs),
\* it returns `response`.
view_func(c, request, args, kwargs, response) ==
    [Ev(c, "view") EXCEPT
        !.calls = Append(@, [request |-> request, args |-> args, kwargs |-> kwargs]),
        !.outcome = "forwarded",
        !.ret = response]

HasRole(user) == user.role /= NoAttr

\* Python's `x in seq`
In(x, seq) == \E i \in 1..Len(seq) : seq[i] = x

\* Variant of Join: the separator is written before every element.
RECURSIVE Join_separator_first(_, _)
Join_separator_first(seq, sep) ==
    IF Len(seq) = 0 THEN ""
    ELSE sep \o seq[1] \o Join_separator_first(Tail(seq), sep)

\* Python's sep.join(seq)
RECURSIVE Join(_, _)
Join(seq, sep) ==
    IF Len(seq) = 0 THEN ""
    ELSE IF Len(seq) = 1 THEN seq[1]
    ELSE seq[1] \o sep \o Join(Tail(seq), sep)

DenialMessage(roles) ==
    "Access denied. This feature requires " \o Join(roles, " or ") \o " role."

OwnerDenialMessage == "You do not have permission to access this resource."

----------------------------------------------------------------------------
(* Function guard *)

\* Variant of wrapper: an empty role tuple lets every role through.
wrapper_empty_permits(roles, response, c, args, kwargs) ==
    IF ~HasRole(c.request.user)
    THEN Raise(Ev(c, "user.role"), "AttributeError")
    ELSE LET c1 == Ev(c, "user.role") IN
         IF Len(roles) = 0 \/ In(c.request.user.role, roles)
         THEN view_func(c1, c.request, args, kwargs, response)
         ELSE Raise(messages_error(c1, DenialMessage(roles)), "PermissionDenied")

\* Variant of wrapper: the keyword arguments are not passed on.
wrapper_drops_kwargs(roles, response, c, args, kwargs) ==
    IF ~HasRole(c.request.user)
    THEN Raise(Ev(c, "user.role"), "AttributeError")
    ELSE LET c1 == Ev(c, "user.role") IN
         IF In(c.request.user.role, roles)
         THEN view_func(c1, c.request, args, [k \in {} |-> None], response)
         ELSE Raise(messages_error(c1, DenialMessage(roles)), "PermissionDenied")

\* Variant of wrapper: a denial leaves a module-level flag set, and the next
\* call consumes the flag and denies without looking at the role.
wrapper_stale_denial(roles, response, c, args, kwargs) ==
    IF /\ last.guard.kind /= "none"
       /\ last.result.outcome = "PermissionDenied"
       /\ ~In("stale denial flag", last.result.events)
    THEN Raise(messages_error(Ev(c, "stale denial flag"), DenialMessage(roles)),
               "PermissionDenied")
    ELSE IF ~HasRole(c.request.user)
    THEN Raise(Ev(c, "user.role"), "AttributeError")
    ELSE LET c1 == Ev(c, "user.role") IN
         IF In(c.request.user.role, roles)
         THEN view_func(c1, c.request, args, kwargs, response)
         ELSE Raise(messages_error(c1, DenialMessage(roles)), "PermissionDenied")

wrapper(roles, response, c, args, kwargs) ==
    IF ~HasRole(c.request.user)
    THEN Raise(Ev(c, "user.role"), "AttributeError")
    ELSE LET c1 == Ev(c, "user.role") IN
         IF In(c.request.user.role, roles)
         THEN view_func(c1, c.request, args, kwargs, response)
         ELSE Raise(messages_error(c1, DenialMessage(roles)), "PermissionDenied")

\* @login_required around wrapper
role_required(roles, response, request, args, kwargs) ==
    LET c == Ev(NewCtx(request), "is_authenticated") IN
    IF request.user.is_authenticated
    THEN wrapper(roles, response, c, args, kwargs)
    ELSE redirect_to_login(c)

admin_required_roles == <<"admin">>

admin_required(response, request, args, kwargs) ==
    role_required(admin_required_roles, response, request, args, kwargs)

researcher_or_admin_required_roles == <<"admin", "researcher">>

researcher_or_admin_required(response, request, args, kwargs) ==
    role_required(researcher_or_admin_required_roles, response, request, args, kwargs)

----------------------------------------------------------------------------
(* Class-based guards *)

\* AccessMixin.raise_exception is left at its default by every guard.
raise_exception == FALSE

AccessMixin_handle_no_permission(c) ==
    LET c1 == Ev(c, "is_authenticated") IN
    IF raise_exception \/ c.request.user.is_authenticated
    THEN Raise(c1, "PermissionDenied")
    ELSE redirect_to_login(c1)

RoleRequiredMixin_default_allowed_roles == <<>>

\* the result of test_func and the context after it
Returned(c, value) ==
    [c |-> Ev(c, IF value THEN "test_func -> True" ELSE "test_func -> False"),
     value |-> value]

\* Variant of test_func: no default-open case for an empty list.
test_func_no_default(roles, c) ==
    LET c1 == Ev(c, "test_func") IN
    IF ~HasRole(c.request.user)
    THEN [c |-> Raise(Ev(c1, "user.role"), "AttributeError"), value |-> FALSE]
    ELSE Returned(Ev(c1, "user.role"), In(c.request.user.role, roles))

test_func(roles, c) ==
    LET c1 == Ev(c, "test_func") IN
    IF Len(roles) = 0
    THEN Returned(c1, TRUE)
    ELSE IF ~HasRole(c.request.user)
    THEN [c |-> Raise(Ev(c1, "user.role"), "AttributeError"), value |-> FALSE]
    ELSE Returned(Ev(c1, "user.role"), In(c.request.user.role, roles))

\* Variant of handle_no_permission: the override is missing, the inherited
\* AccessMixin.handle_no_permission runs.
handle_no_permission_inherited(roles, c) ==
    AccessMixin_handle_no_permission(c)

handle_no_permission(roles, c) ==
    LET c1 == Ev(c, "is_authenticated") IN
    IF c.request.user.is_authenticated
    THEN Raise(messages_error(c1, DenialMessage(roles)), "PermissionDenied")
    ELSE AccessMixin_handle_no_permission(c1)

\* UserPassesTestMixin.dispatch as resolved for a RoleRequiredMixin view
UserPassesTestMixin_dispatch(roles, response, c, args, kwargs) ==
    LET t == test_func(roles, c) IN
    IF t.c.outcome /= "pending" THEN t.c
    ELSE IF ~t.value THEN handle_no_permission(roles, t.c)
    ELSE view_func(t.c, c.request, args, kwargs, response)

\* dispatch of a RoleRequiredMixin view: LoginRequiredMixin.dispatch first,
\* then UserPassesTestMixin.dispatch, then the view.
RoleRequiredMixin_dispatch(roles, response, request, args, kwargs) ==
    LET c == Ev(NewCtx(request), "is_authenticated") IN
    IF ~request.user.is_authenticated
    THEN handle_no_permission(roles, c)
    ELSE UserPassesTestMixin_dispatch(roles, response, c, args, kwargs)

\* Variant of AdminRequiredMixin.allowed_roles: researchers are let in too.
AdminRequiredMixin_allowed_roles_wide == <<"admin", "researcher">>

AdminRequiredMixin_allowed_roles == <<"admin">>

ResearcherOrAdminMixin_allowed_roles == <<"admin", "researcher">>

----------------------------------------------------------------------------
(* Ownership guard *)

StaffOrOwnerMixin_default_owner_field == "user"

StaffRoles == <<"admin", "researcher">>

\* Variant of getattr: the attribute read is always `user`.
getattr_user_only(obj, name, default) ==
    IF "user" \in DOMAIN obj THEN obj["user"] ELSE default

getattr(obj, name, default) ==
    IF name \in DOMAIN obj THEN obj[name] ELSE default

\* owner == request.user: model instances are equal iff their pks are equal
\* and set; None and AnonymousUser equal no model instance.
UserEq(owner, user) ==
    /\ owner /= None
    /\ user.is_authenticated
    /\ owner = user.pk

\* super().dispatch of StaffOrOwnerMixin: LoginRequiredMixin.dispatch, whose
\* handle_no_permission is AccessMixin's, then the view.
LoginRequiredMixin_dispatch(response, c, args, kwargs) ==
    LET c1 == Ev(c, "is_authenticated") IN
    IF ~c.request.user.is_authenticated
    THEN AccessMixin_handle_no_permission(c1)
    ELSE view_func(c1, c.request, args, kwargs, response)

StaffOrOwnerMixin_dispatch(field, obj, response, request, args, kwargs) ==
    LET c1    == Ev(NewCtx(request), "get_object")
        owner == getattr(obj, field, None)
        c2    == Ev(c1, "getattr")
    IN  IF ~HasRole(request.user)
        THEN Raise(Ev(c2, "user.role"), "AttributeError")
        ELSE LET c3 == Ev(c2, "user.role") IN
             IF In(request.user.role, StaffRoles)
             THEN LoginRequiredMixin_dispatch(response, c3, args, kwargs)
             ELSE LET c4 == Ev(c3, "owner == user") IN
                  IF UserEq(owner, request.user)
                  THEN LoginRequiredMixin_dispatch(response, c4, args, kwargs)
                  ELSE Raise(messages_error(c4, OwnerDenialMessage),
                             "PermissionDenied")

----------------------------------------------------------------------------
(* The guarded endpoints of the model *)

RoleTuples ==
    {<<>>, <<"admin">>, <<"member">>, <<"admin", "researcher">>,
     <<"researcher", "admin">>}

Guard(kind, cfg) == [kind |-> kind, cfg |-> cfg]

FunctionGuards ==
    {Guard("role_required", t) : t \in RoleTuples}
    \cup {Guard("admin_required", <<>>),
          Guard("researcher_or_admin_required", <<>>)}

RoleMixinGuards ==
    {Guard("RoleRequiredMixin", t) : t \in RoleTuples}
    \cup {Guard("AdminRequiredMixin", <<>>),
          Guard("ResearcherOrAdminMixin", <<>>)}

RoleGuards == FunctionGuards \cup RoleMixinGuards

\* a view that keeps the default owner_field and one that overrides it
OwnerGuards ==
    {Guard("StaffOrOwnerMixin", <<>>), Guard("StaffOrOwnerMixin", <<"reported_by">>)}

DefinedOwnerField(g) ==
    IF g.cfg = <<>> THEN StaffOrOwnerMixin_default_owner_field ELSE g.cfg[1]

\* the role tuple fixed when the guard is defined
DefinedRoles(g) ==
    CASE g.kind = "role_required" -> g.cfg
      [] g.kind = "admin_required" -> admin_required_roles
      [] g.kind = "researcher_or_admin_required" -> researcher_or_admin_required_roles
      [] g.kind = "RoleRequiredMixin" ->
            IF g.cfg = <<>> THEN RoleRequiredMixin_default_allowed_roles ELSE g.cfg
      [] g.kind = "AdminRequiredMixin" -> AdminRequiredMixin_allowed_roles
      [] g.kind = "ResearcherOrAdminMixin" -> ResearcherOrAdminMixin_allowed_roles

NoEval == [guard |-> Guard("none", <<>>)]

Evaluation(g, request, obj, args, kwargs, response, result) ==
    [guard |-> g, request |-> request, obj |-> obj, args |-> args,
     kwargs |-> kwargs, response |-> response, result |-> result]

\* every request is a new request object
NextRequestId ==
    IF last.guard.kind = "none" THEN 1 ELSE (last.request.id % NumRequests) + 1

NewRequest(user) == [id |-> NextRequestId, user |-> user]

Record(e) ==
    /\ last' = e
    /\ UNCHANGED <<allowed_roles, owner_field>>

----------------------------------------------------------------------------
(* Actions: one per kind of guarded endpoint *)

Init ==
    /\ allowed_roles = [g \in RoleGuards |-> DefinedRoles(g)]
    /\ owner_field = [g \in OwnerGuards |-> DefinedOwnerField(g)]
    /\ last = NoEval

Call_role_required ==
    \E t \in RoleTuples, user \in Users, h \in HandlerCalls :
        LET g == Guard("role_required", t)
            request == NewRequest(user)
        IN  Record(Evaluation(g, request, NoObject, h.args, h.kwargs, h.response,
                role_required(allowed_roles[g], h.response, request,
                              h.args, h.kwargs)))

Call_admin_required ==
    \E user \in Users, h \in HandlerCalls :
        LET request == NewRequest(user)
        IN  Record(Evaluation(Guard("admin_required", <<>>), request, NoObject,
                h.args, h.kwargs, h.response,
                admin_required(h.response, request, h.args, h.kwargs)))

Call_researcher_or_admin_required ==
    \E user \in Users, h \in HandlerCalls :
        LET request == NewRequest(user)
        IN  Record(Evaluation(Guard("researcher_or_admin_required", <<>>), request,
                NoObject, h.args, h.kwargs, h.response,
                researcher_or_admin_required(h.response, request, h.args, h.kwargs)))

Dispatch_RoleRequiredMixin ==
    \E g \in RoleMixinGuards, user \in Users, h \in HandlerCalls :
        LET request == NewRequest(user)
        IN  Record(Evaluation(g, request, NoObject, h.args, h.kwargs, h.response,
                RoleRequiredMixin_dispatch(allowed_roles[g], h.response, request,
                                           h.args, h.kwargs)))

Dispatch_StaffOrOwnerMixin ==
    \E g \in OwnerGuards, obj \in Objects, user \in Users, h \in HandlerCalls :
        LET request == NewRequest(user)
        IN  Record(Evaluation(g, request, obj, h.args, h.kwargs, h.response,
                StaffOrOwnerMixin_dispatch(owner_field[g], obj, h.response,
                                           request, h.args, h.kwargs)))

Next ==
    \/ Call_role_required
    \/ Call_admin_required
    \/ Call_researcher_or_admin_required
    \/ Dispatch_RoleRequiredMixin
    \/ Dispatch_StaffOrOwnerMixin

Spec == Init /\ [][Next]_vars

----------------------------------------------------------------------------
(* Properties *)

Evaluated == last.guard.kind /= "none"

Authenticated == last.request.user.is_authenticated

Outcome == last.result.outcome

FunctionKinds == {"role_required", "admin_required", "researcher_or_admin_required"}
RoleMixinKinds == {"RoleRequiredMixin", "AdminRequiredMixin", "ResearcherOrAdminMixin"}
ClassKinds == RoleMixinKinds \cup {"StaffOrOwnerMixin"}

\* the role tuple each guard of the model was defined with
RolesAtDefinition(g) ==
    CASE g.kind \in {"role_required", "RoleRequiredMixin"} -> g.cfg
      [] g.kind \in {"admin_required", "AdminRequiredMixin"} -> <<"admin">>
      [] g.kind \in {"researcher_or_admin_required", "ResearcherOrAdminMixin"} ->
            <<"admin", "researcher">>

Elements(seq) == {seq[i] : i \in DOMAIN seq}

\* the handler was invoked exactly once, with what the guard was called with
ForwardedUnchanged ==
    /\ last.result.calls =
          <<[request |-> last.request, args |-> last.args, kwargs |-> last.kwargs]>>
    /\ last.result.ret = last.response

\* C1: a request whose requester is not authenticated ends, at every guarded
\* endpoint, in the redirect to the login page: never in PermissionDenied or
\* another failure, and never with the handler or view run.
C1_UnauthenticatedIsRedirected ==
    (Evaluated /\ ~Authenticated) =>
        /\ Outcome = "redirect_to_login"
        /\ last.result.calls = <<>>

\* C2: for role_required(*roles) and an authenticated requester with role r,
\* the handler is invoked iff r is one of roles, and the request fails with
\* PermissionDenied otherwise; with no roles every requester is denied.
C2_FunctionGuardPermitsIffMember ==
    (Evaluated /\ last.guard.kind = "role_required" /\ Authenticated) =>
        LET member == last.request.user.role \in Elements(last.guard.cfg) IN
        /\ member => (Outcome = "forwarded" /\ Len(last.result.calls) = 1)
        /\ ~member => (Outcome = "PermissionDenied" /\ last.result.calls = <<>>)

C2_Witness ==
    /\ Evaluated
    /\ last.guard = Guard("role_required", <<>>)
    /\ Authenticated
    /\ last.request.user.role = "admin"
    /\ Outcome = "PermissionDenied"

\* the owner-field name a StaffOrOwnerMixin view of the model was defined with
OwnerFieldAtDefinition(g) == IF g.cfg = <<>> THEN "user" ELSE g.cfg[1]

OwnerMatches ==
    LET f == OwnerFieldAtDefinition(last.guard) IN
    /\ f \in DOMAIN last.obj
    /\ last.obj[f] = last.request.user.pk

\* C3: a StaffOrOwnerMixin view is dispatched to iff the requester is
\* authenticated and (has role admin or researcher, or is the value of the
\* object's owner field); an authenticated requester who is neither is denied
\* with PermissionDenied, also when the object has no owner field.
C3_OwnerGuardPermitsStaffOrOwner ==
    (Evaluated /\ last.guard.kind = "StaffOrOwnerMixin") =>
        LET permitted ==
                /\ Authenticated
                /\ \/ last.request.user.role \in {"admin", "researcher"}
                   \/ OwnerMatches
        IN  /\ (Outcome = "forwarded") <=> permitted
            /\ (Authenticated /\ ~permitted) => Outcome = "PermissionDenied"

C3_Witness ==
    /\ Evaluated
    /\ last.guard = Guard("StaffOrOwnerMixin", <<"reported_by">>)
    /\ last.request.user.role = "member"
    /\ "user" \in DOMAIN last.obj
    /\ last.obj["user"] /= last.request.user.pk
    /\ OwnerMatches
    /\ Outcome = "forwarded"

\* C4: for a RoleRequiredMixin view and an authenticated requester with role
\* r, test_func() returns true iff allowed_roles is empty or r is one of them;
\* so the default (empty) allowed_roles permits every authenticated requester,
\* while role_required() with no roles denies every one of them.
C4_TestFuncDefaultOpen ==
    /\ (Evaluated /\ last.guard.kind \in RoleMixinKinds /\ Authenticated) =>
          LET roles == RolesAtDefinition(last.guard)
              pass  == roles = <<>> \/ last.request.user.role \in Elements(roles)
          IN  /\ In("test_func -> True", last.result.events) <=> pass
              /\ In("test_func -> False", last.result.events) <=> ~pass
              /\ (Outcome = "forwarded") <=> pass
    /\ (Evaluated /\ last.guard = Guard("role_required", <<>>) /\ Authenticated) =>
          Outcome = "PermissionDenied"

C4_Witness ==
    /\ Evaluated
    /\ last.guard = Guard("RoleRequiredMixin", <<>>)
    /\ Authenticated
    /\ last.request.user.role = "guest"
    /\ In("test_func -> True", last.result.events)
    /\ Outcome = "forwarded"

\* the denial text of each role tuple of the model, written out
ExpectedDenial(roles) ==
    CASE roles = <<>> -> "Access denied. This feature requires  role."
      [] roles = <<"admin">> -> "Access denied. This feature requires admin role."
      [] roles = <<"member">> -> "Access denied. This feature requires member role."
      [] roles = <<"admin", "researcher">> ->
            "Access denied. This feature requires admin or researcher role."
      [] roles = <<"researcher", "admin">> ->
            "Access denied. This feature requires researcher or admin role."

Count(e, seq) == Cardinality({i \in DOMAIN seq : seq[i] = e})

\* the evaluation ends with the message being attached and then the raise
MessageThenRaise ==
    LET ev == last.result.events IN
    /\ Len(ev) >= 2
    /\ ev[Len(ev) - 1] = "messages.error"
    /\ ev[Len(ev)] = "raise"
    /\ Count("messages.error", ev) = 1
    /\ Count("raise", ev) = 1

\* C5: when role_required or RoleRequiredMixin (or a preset) denies an
\* authenticated requester, exactly one message "Access denied. This feature
\* requires <roles joined by ' or ' in definition order> role." is attached,
\* then PermissionDenied is raised; the handler is not invoked and the role
\* is tested once.
C5_DenialMessageThenPermissionDenied ==
    (/\ Evaluated
     /\ last.guard.kind \in FunctionKinds \cup RoleMixinKinds
     /\ Authenticated
     /\ Outcome /= "forwarded") =>
        /\ Outcome = "PermissionDenied"
        /\ last.result.messages = <<ExpectedDenial(RolesAtDefinition(last.guard))>>
        /\ MessageThenRaise
        /\ last.result.calls = <<>>
        /\ Count("view", last.result.events) = 0
        /\ Count("user.role", last.result.events) = 1

C5_Witness ==
    /\ Evaluated
    /\ last.guard.kind = "researcher_or_admin_required"
    /\ last.request.user.role = "member"
    /\ Outcome = "PermissionDenied"
    /\ last.result.messages =
          <<"Access denied. This feature requires admin or researcher role.">>

\* C6: when the function guard permits, the handler is invoked exactly once
\* with the original request, args and kwargs, the guard returns the
\* handler's return value, no message is attached and the request (its user
\* and role) is unchanged.
C6_PermitPassesThrough ==
    (Evaluated /\ last.guard.kind \in FunctionKinds /\ Outcome = "forwarded") =>
        /\ ForwardedUnchanged
        /\ last.result.messages = <<>>
        /\ last.result.request = last.request
        /\ Count("view", last.result.events) = 1

C6_Witness ==
    /\ Evaluated
    /\ last.guard = Guard("role_required", <<"admin", "researcher">>)
    /\ last.request.user.role = "admin"
    /\ last.kwargs /= [k \in {} |-> None]
    /\ last.args = <<"a1">>
    /\ Outcome = "forwarded"
    /\ last.result.ret = "HttpResponse_B"

\* guards the presets are said to behave like
AdminFamily ==
    {Guard("admin_required", <<>>), Guard("role_required", <<"admin">>),
     Guard("AdminRequiredMixin", <<>>)}

ResearcherOrAdminFamily ==
    {Guard("researcher_or_admin_required", <<>>),
     Guard("role_required", <<"admin", "researcher">>),
     Guard("ResearcherOrAdminMixin", <<>>)}

SameFamily(g1, g2) ==
    \/ g1 \in AdminFamily /\ g2 \in AdminFamily
    \/ g1 \in ResearcherOrAdminFamily /\ g2 \in ResearcherOrAdminFamily

\* C7: for every requester, admin_required, role_required('admin') and
\* AdminRequiredMixin end in the same outcome with the same messages, and so
\* do researcher_or_admin_required, role_required('admin', 'researcher') and
\* ResearcherOrAdminMixin: two consecutive evaluations of guards of one
\* family for the same requester agree.
C7_PresetsAgree ==
    [][(/\ Evaluated
        /\ SameFamily(last.guard, last'.guard)
        /\ last.request.user = last'.request.user) =>
            /\ last.result.outcome = last'.result.outcome
            /\ last.result.messages = last'.result.messages]_vars

C7_Witness ==
    /\ Evaluated
    /\ last.guard = Guard("AdminRequiredMixin", <<>>)
    /\ last.request.user.role = "researcher"
    /\ Outcome = "PermissionDenied"
    /\ last.result.messages = <<"Access denied. This feature requires admin role.">>

RolesAsDefined ==
    /\ allowed_roles = [g \in RoleGuards |-> RolesAtDefinition(g)]
    /\ owner_field = [g \in OwnerGuards |-> OwnerFieldAtDefinition(g)]

TargetOwner(e) ==
    IF e.guard.kind = "StaffOrOwnerMixin"
    THEN LET f == OwnerFieldAtDefinition(e.guard) IN
         IF f \in DOMAIN e.obj THEN e.obj[f] ELSE None
    ELSE None

\* C8 as stated: the guards' role sets stay as defined, and two requests with
\* the same authentication status, the same role and (ownership guard) the
\* same target owner get the same outcome from the same guard.
C8_SameStatusRoleOwnerSameOutcome ==
    [][/\ RolesAsDefined'
       /\ (/\ Evaluated
           /\ last.guard = last'.guard
           /\ last.request.user.is_authenticated = last'.request.user.is_authenticated
           /\ last.request.user.role = last'.request.user.role
           /\ TargetOwner(last) = TargetOwner(last')) =>
               last.result.outcome = last'.result.outcome]_vars

\* C8 amended: the guards' role sets stay as defined, and two distinct
\* requests by the same requester (same user, hence the same authentication
\* status and role) and, for the ownership guard, with the same target owner
\* get the same outcome from the same guard.
C8_SameRequesterSameOutcome ==
    [][/\ RolesAsDefined'
       /\ (/\ Evaluated
           /\ last.guard = last'.guard
           /\ last.request.id /= last'.request.id
           /\ last.request.user = last'.request.user
           /\ TargetOwner(last) = TargetOwner(last')) =>
               last.result.outcome = last'.result.outcome]_vars

C8_Witness ==
    /\ Evaluated
    /\ RolesAsDefined
    /\ last.request.id = NumRequests
    /\ last.guard.kind = "StaffOrOwnerMixin"
    /\ last.request.user.role = "member"
    /\ TargetOwner(last) = last.request.user.pk
    /\ Outcome = "forwarded"

IsRoleTest(e) ==
    e \in {"user.role", "test_func", "test_func -> True", "test_func -> False",
           "owner == user"}

\* C9: in every dispatch of a class-based guard the requester's role is read
\* and the role or ownership test is evaluated only after the requester has
\* been found authenticated, and the view runs only after both.
C9_AuthenticationCheckedFirst ==
    (Evaluated /\ last.guard.kind \in ClassKinds) =>
        LET ev == last.result.events IN
        \A i \in DOMAIN ev :
            (IsRoleTest(ev[i]) \/ ev[i] = "view") =>
                /\ Authenticated
                /\ \E j \in 1..(i - 1) : ev[j] = "is_authenticated"

\* C10: every evaluation of every guard attaches at most one message, and
\* attaches one iff it ends in PermissionDenied, the message being attached
\* before the raise: the role-list message for the role guards, the generic
\* message for the ownership guard.
C10_MessageIffPermissionDenied ==
    Evaluated =>
        /\ Len(last.result.messages) <= 1
        /\ (last.result.messages /= <<>>) <=> (Outcome = "PermissionDenied")
        /\ Count("messages.error", last.result.events) = Len(last.result.messages)
        /\ Outcome = "PermissionDenied" =>
              /\ MessageThenRaise
              /\ last.result.messages =
                    IF last.guard.kind = "StaffOrOwnerMixin"
                    THEN <<"You do not have permission to access this resource.">>
                    ELSE <<ExpectedDenial(RolesAtDefinition(last.guard))>>

C10_Witness ==
    /\ Evaluated
    /\ last.guard.kind = "StaffOrOwnerMixin"
    /\ last.request.user.role = "member"
    /\ ~OwnerMatches
    /\ Outcome = "PermissionDenied"
    /\ last.result.messages = <<"You do not have permission to access this resource.">>

====
